---- MODULE Spec2Model ----
(***************************************************************************)
(* eli5/formatters/image.py: rendering a heatmap as a translucent overlay  *)
(* over an image (format_as_image and its helpers).                        *)
(*                                                                         *)
(* Floats of the [0, 1] range are modelled exactly, as integers counting   *)
(* hundredths (0.65 is 65, 1.0 is One).  Array and image objects a caller  *)
(* can hold a reference to live in `heap`, so that aliasing (a function    *)
(* returning its argument, a numpy view) is visible.                       *)
(***************************************************************************)
EXTENDS Integers, Sequences, FiniteSets, TLC

VARIABLES
    pc,             \* the call about to run, or "return" / "raised"
    heap,           \* objects by address: heat, img, rgba, capped
    given,          \* the caller's objects as they were when the call began
    interpolation,  \* argument: PIL resampling filter
    colormap,       \* argument: the colormap callable
    alpha_limit,    \* argument: None, a number or something else
    starting_array, \* argument of update_alpha: None or a reference
    heatmap,        \* format_as_image's local `heatmap` / the heatmap argument
    ret,            \* the value returned
    err,            \* the exception raised: [type, in], or NoErr
    trace           \* the functions entered so far, in order

vars == <<pc, heap, given, interpolation, colormap, alpha_limit,
          starting_array, heatmap, ret, err, trace>>

----------------------------------------------------------------------------
(* Bounds of the model and constants of the program *)

MaxH == 2
MaxW == 2

One == 100
DefaultAlphaLimit == 65
MaxByte == 255

----------------------------------------------------------------------------
(* Values *)

None == [type |-> "None"]
NoErr == [type |-> "none", in |-> "none"]
Raise(t, f) == [type |-> t, in |-> f]

Pos(h, w) == (1..h) \X (1..w)

\* a numpy array (or, with type "list", a nested Python list of the same data)
Array(t, h, w, v) == [type |-> t, h |-> h, w |-> w, v |-> v]

\* a PIL image: px is [tag |-> "pixels", at |-> pixel by position] or a
\* description of pixels the library computed by resampling or blending
PilImage(mode, width, height, px) ==
    [type |-> "pil", mode |-> mode, width |-> width, height |-> height, px |-> px]

Pixels(f) == [tag |-> "pixels", at |-> f]

\* a reference to an array: the object at addr, or the numpy view [:,:,3] of it
Ref(addr) == [type |-> "ref", addr |-> addr, view |-> "all"]
AlphaView(addr) == [type |-> "ref", addr |-> addr, view |-> "alpha"]

\* the rank 2 data a reference denotes
Read(hp, r) ==
    IF r.view = "alpha"
    THEN [p \in DOMAIN hp[r.addr].v |-> hp[r.addr].v[p][4]]
    ELSE hp[r.addr].v

\* alpha_limit arguments
Num(kind, val) == [type |-> kind, val |-> val]
NoLimit == None
StrLimit == [type |-> "str", val |-> 0]

Min(a, b) == IF a <= b THEN a ELSE b

----------------------------------------------------------------------------
(* colorize *)

\* the colormap callables: value in [0, 1] -> RGBA in [0, 1].  "magma" stands
\* for a matplotlib colormap (opaque alpha), "callable" for a user function.
Colormap(name, x) ==
    IF name = "magma"
    THEN <<x, x \div 2, One - x, One>>
    ELSE <<One - x, x, x, x \div 2>>

\* heatmap = colormap(heatmap): a new RGBA array at address rgba
colorize(hp, hm, cm) ==
    [heap |-> [hp EXCEPT !.rgba =
                 Array("ndarray", hp[hm.addr].h, hp[hm.addr].w,
                       [p \in DOMAIN Read(hp, hm) |-> Colormap(cm, Read(hp, hm)[p])])],
     ret |-> Ref("rgba")]

----------------------------------------------------------------------------
(* cap_alpha, update_alpha *)

IsNumber(lim) == lim.type \in {"float", "int"}

\* np.minimum(alpha_arr, alpha_limit): a new array
minimum(f, lim) == [p \in DOMAIN f |-> Min(f[p], lim)]

\* isinstance(starting_array, np.ndarray)
IsNdarray(hp, r) == r # None /\ hp[r.addr].type = "ndarray"

\* image_array[:,:,3] = alpha
SetAlpha(hp, image_array, alpha) ==
    [hp EXCEPT ![image_array.addr].v =
        [p \in DOMAIN hp[image_array.addr].v |->
            [hp[image_array.addr].v[p] EXCEPT ![4] = alpha[p]]]]

\* cap_alpha capping in place: np.minimum(alpha_arr, alpha_limit, out=alpha_arr)
cap_alpha_inplace(hp, alpha_arr, lim) ==
    IF lim = None
    THEN [heap |-> hp, ret |-> alpha_arr, err |-> NoErr]
    ELSE IF IsNumber(lim)
    THEN IF 0 <= lim.val /\ lim.val <= One
         THEN [heap |-> IF alpha_arr.view = "all"
                        THEN [hp EXCEPT ![alpha_arr.addr].v =
                                 minimum(Read(hp, alpha_arr), lim.val)]
                        ELSE SetAlpha(hp, alpha_arr, minimum(Read(hp, alpha_arr), lim.val)),
               ret |-> alpha_arr, err |-> NoErr]
         ELSE [heap |-> hp, ret |-> None, err |-> Raise("ValueError", "cap_alpha")]
    ELSE [heap |-> hp, ret |-> None, err |-> Raise("TypeError", "cap_alpha")]

\* cap_alpha without the range and type checks
cap_alpha_nocheck(hp, alpha_arr, lim) ==
    IF IsNumber(lim)
    THEN [heap |-> [hp EXCEPT !.capped =
                      Array("ndarray", hp[alpha_arr.addr].h, hp[alpha_arr.addr].w,
                            minimum(Read(hp, alpha_arr), lim.val))],
          ret |-> Ref("capped"), err |-> NoErr]
    ELSE [heap |-> hp, ret |-> alpha_arr, err |-> NoErr]

\* cap_alpha with the upper bound excluded: 0 <= alpha_limit < 1
cap_alpha_exclusive(hp, alpha_arr, lim) ==
    IF lim = None
    THEN [heap |-> hp, ret |-> alpha_arr, err |-> NoErr]
    ELSE IF IsNumber(lim)
    THEN IF 0 <= lim.val /\ lim.val < One
         THEN [heap |-> [hp EXCEPT !.capped =
                           Array("ndarray", hp[alpha_arr.addr].h, hp[alpha_arr.addr].w,
                                 minimum(Read(hp, alpha_arr), lim.val))],
               ret |-> Ref("capped"), err |-> NoErr]
         ELSE [heap |-> hp, ret |-> None, err |-> Raise("ValueError", "cap_alpha")]
    ELSE [heap |-> hp, ret |-> None, err |-> Raise("TypeError", "cap_alpha")]

cap_alpha(hp, alpha_arr, lim) ==
    IF lim = None
    THEN [heap |-> hp, ret |-> alpha_arr, err |-> NoErr]
    ELSE IF IsNumber(lim)
    THEN IF 0 <= lim.val /\ lim.val <= One
         THEN [heap |-> [hp EXCEPT !.capped =
                           Array("ndarray", hp[alpha_arr.addr].h, hp[alpha_arr.addr].w,
                                 minimum(Read(hp, alpha_arr), lim.val))],
               ret |-> Ref("capped"), err |-> NoErr]
         ELSE [heap |-> hp, ret |-> None, err |-> Raise("ValueError", "cap_alpha")]
    ELSE [heap |-> hp, ret |-> None, err |-> Raise("TypeError", "cap_alpha")]

\* update_alpha that never looks at starting_array
update_alpha_keep(hp, image_array, start, lim) ==
    LET c == cap_alpha(hp, AlphaView(image_array.addr), lim)
    IN  IF c.err # NoErr THEN c
        ELSE [heap |-> SetAlpha(c.heap, image_array, Read(c.heap, c.ret)),
              ret |-> None, err |-> NoErr]

\* update_alpha assigning image_array[:,:] instead of image_array[:,:,3]
update_alpha_clobber(hp, image_array, start, lim) ==
    LET alpha == IF IsNdarray(hp, start) THEN start ELSE AlphaView(image_array.addr)
        c == cap_alpha(hp, alpha, lim)
    IN  IF c.err # NoErr THEN c
        ELSE [heap |-> [c.heap EXCEPT ![image_array.addr].v =
                          [p \in DOMAIN hp[image_array.addr].v |->
                              LET a == Read(c.heap, c.ret)[p] IN <<a, a, a, a>>]],
              ret |-> None, err |-> NoErr]

update_alpha(hp, image_array, start, lim) ==
    LET alpha == IF IsNdarray(hp, start) THEN start ELSE AlphaView(image_array.addr)
        c == cap_alpha(hp, alpha, lim)
    IN  IF c.err # NoErr THEN c
        ELSE [heap |-> SetAlpha(c.heap, image_array, Read(c.heap, c.ret)),
              ret |-> None, err |-> NoErr]

----------------------------------------------------------------------------
(* heatmap_to_grayscale, heatmap_to_rgba *)

\* the cast with rounding: np.rint(heatmap*255).astype('uint8')
ToUint8_round(x) == (2 * x * MaxByte + One) \div (2 * One)

\* (heatmap*255).astype('uint8') on one value of [0, 1]: the cast drops the
\* fraction
ToUint8(x) == (x * MaxByte) \div One

\* Image.fromarray(heatmap, 'L'): rows are the first axis
heatmap_to_grayscale(hp, hm) ==
    PilImage("L", hp[hm.addr].w, hp[hm.addr].h,
             Pixels([p \in DOMAIN Read(hp, hm) |-> <<ToUint8(Read(hp, hm)[p])>>]))

\* Image.fromarray(heatmap, 'RGBA')
heatmap_to_rgba(hp, hm) ==
    PilImage("RGBA", hp[hm.addr].w, hp[hm.addr].h,
             Pixels([p \in DOMAIN Read(hp, hm) |->
                       [c \in 1..4 |-> ToUint8(Read(hp, hm)[p][c])]]))

----------------------------------------------------------------------------
(* resize_over *)

\* PIL's Image.resize(size, resample): size is (width, height); an image that
\* already has that size is copied, any other is resampled by the library
PilResize(im, size, resample) ==
    IF <<im.width, im.height>> = size
    THEN im
    ELSE PilImage(im.mode, size[1], size[2],
                  [tag |-> "resampled", of |-> im.px, filter |-> resample])

\* resize_over that also reads the shape of an array
resize_over_anyform(hm, image, interp) ==
    IF image.type = "ndarray"
    THEN [ret |-> PilResize(hm, <<image.h, image.w>>, interp), err |-> NoErr]
    ELSE [ret |-> PilResize(hm, <<image.height, image.width>>, interp), err |-> NoErr]

\* spatial_dimensions = (image.height, image.width): only a PIL image has the
\* attributes height and width
resize_over(hm, image, interp) ==
    IF image.type # "pil"
    THEN [ret |-> None, err |-> Raise("AttributeError", "resize_over")]
    ELSE [ret |-> PilResize(hm, <<image.height, image.width>>, interp), err |-> NoErr]

----------------------------------------------------------------------------
(* convert_image *)

\* Image.fromarray(img) of a uint8 array (H, W, 3) or (H, W, 4)
fromarray(a) ==
    PilImage(IF \A p \in DOMAIN a.v : Len(a.v[p]) = 4 THEN "RGBA" ELSE "RGB",
             a.w, a.h, Pixels(a.v))

\* one pixel of img.convert(mode='RGBA'): L is replicated, RGB kept, both
\* get an opaque alpha
ToRGBA(mode, p) ==
    CASE mode = "L"    -> <<p[1], p[1], p[1], MaxByte>>
      [] mode = "RGB"  -> <<p[1], p[2], p[3], MaxByte>>
      [] mode = "RGBA" -> p

PilConvertRGBA(im) ==
    PilImage("RGBA", im.width, im.height,
             IF im.px.tag = "pixels"
             THEN Pixels([p \in DOMAIN im.px.at |-> ToRGBA(im.mode, im.px.at[p])])
             ELSE im.px)

convert_image(img) ==
    LET img1 == IF img.type = "ndarray" THEN fromarray(img) ELSE img
    IN  IF img1.type = "pil"
        THEN [ret |-> PilConvertRGBA(img1), err |-> NoErr]
        ELSE [ret |-> None, err |-> Raise("TypeError", "convert_image")]

----------------------------------------------------------------------------
(* overlay_heatmap *)

\* PIL's rounded division by 255: ((a >> 8) + a) >> 8
ShiftForDiv255(a) == ((a \div 256) + a) \div 256

\* one pixel of PIL's Image.alpha_composite(im1, im2): src (of im2) over dst
\* (of im1), in integers with 7 extra bits
CompositePixel(dst, src) ==
    IF src[4] = 0 THEN dst
    ELSE LET blend == dst[4] * (MaxByte - src[4])
             outa255 == src[4] * MaxByte + blend
             coef1 == (src[4] * MaxByte * MaxByte * 128) \div outa255
             coef2 == MaxByte * 128 - coef1
             ch(c) == ShiftForDiv255(src[c] * coef1 + dst[c] * coef2 + 128 * 128) \div 128
         IN  <<ch(1), ch(2), ch(3), ShiftForDiv255(outa255 + 128)>>

\* Image.alpha_composite(im1, im2): both RGBA and of one size, or ValueError
alpha_composite(im1, im2) ==
    IF im1.mode # "RGBA" \/ im2.mode # "RGBA"
       \/ <<im1.width, im1.height>> # <<im2.width, im2.height>>
    THEN [ret |-> None, err |-> Raise("ValueError", "alpha_composite")]
    ELSE [ret |-> PilImage("RGBA", im1.width, im1.height,
                    IF im1.px.tag = "pixels" /\ im2.px.tag = "pixels"
                    THEN Pixels([p \in DOMAIN im1.px.at |->
                                   CompositePixel(im1.px.at[p], im2.px.at[p])])
                    ELSE [tag |-> "composite", dst |-> im1.px, src |-> im2.px]),
          err |-> NoErr]

\* overlay_heatmap with the arguments of alpha_composite exchanged
overlay_heatmap_under(hm, image) ==
    LET h == convert_image(hm)
        i == convert_image(image)
    IN  IF h.err # NoErr THEN h
        ELSE IF i.err # NoErr THEN i
        ELSE alpha_composite(h.ret, i.ret)

overlay_heatmap(hm, image) ==
    LET h == convert_image(hm)
        i == convert_image(image)
    IN  IF h.err # NoErr THEN h
        ELSE IF i.err # NoErr THEN i
        ELSE alpha_composite(i.ret, h.ret)

----------------------------------------------------------------------------
(* Inputs *)

\* heatmap values, pixel values and the numbering of a shape's cells
Levels == <<0, 40, 90, One>>
Bytes == <<0, 77, 128, MaxByte>>
Seeds == 0..3
Level(k) == Levels[(k % 4) + 1]
Byte(k) == Bytes[(k % 4) + 1]
Index(p, w) == (p[1] - 1) * w + p[2]

Shapes == (1..MaxH) \X (1..MaxW)

\* rank 2 arrays with values in [0, 1]
HeatArray(t, h, w, s) == Array(t, h, w, [p \in Pos(h, w) |-> Level(s + Index(p, w))])

\* RGBA arrays with values in [0, 1]
RgbaArray(h, w, s) ==
    Array("ndarray", h, w,
          [p \in Pos(h, w) |->
              LET k == s + Index(p, w)
              IN  <<Level(k), One - Level(k), Level(k + 1), Level(2 * k + 1)>>])

\* 8-bit pixels of a mode
Pixel(mode, k) ==
    CASE mode = "L"    -> <<Byte(k)>>
      [] mode = "RGB"  -> <<Byte(k), Byte(k + 1), Byte(k \div 2)>>
      [] mode = "RGBA" -> <<Byte(k), Byte(k + 1), Byte(k \div 2), Byte(3 * k)>>

PixelData(mode, h, w, s) == [p \in Pos(h, w) |-> Pixel(mode, s + Index(p, w))]

\* an image argument: a PIL image, a uint8 array, or something that is neither
ImageArg(form, mode, h, w, s) ==
    CASE form = "pil"     -> PilImage(mode, w, h, Pixels(PixelData(mode, h, w, s)))
      [] form = "ndarray" -> Array("ndarray", h, w, PixelData(mode, h, w, s))
      [] form = "str"     -> [type |-> "str"]

Filters == {"LANCZOS", "NEAREST"}
Colormaps == {"magma", "callable"}

\* alpha_limit: absent, floats, ints (1 is One), and values that are no number
Limits ==
    {NoLimit, StrLimit, [type |-> "list", val |-> 0]}
    \cup {Num("float", v) : v \in {0, 50, DefaultAlphaLimit, One, One + 50, 0 - 10}}
    \cup {Num("int", v) : v \in {0, One, 2 * One, 0 - One}}

InRange(lim) == IsNumber(lim) /\ 0 <= lim.val /\ lim.val <= One

----------------------------------------------------------------------------
(* format_as_image, one step per call it makes *)

\* the objects the caller passes in and the fresh locals of a call
Fresh(heat, img, rgba) ==
    /\ heap = [heat |-> heat, img |-> img, rgba |-> rgba, capped |-> None]
    /\ given = heap
    /\ ret = None
    /\ err = NoErr
    /\ trace = <<>>

Init ==
    /\ pc = "colorize"
    /\ \E sh \in Shapes, s \in Seeds, shi \in Shapes, si \in {0, 1},
          form \in {"pil", "ndarray"}, mode \in {"RGB", "RGBA"} :
          Fresh(HeatArray("ndarray", sh[1], sh[2], s),
                ImageArg(form, mode, shi[1], shi[2], si), None)
    /\ interpolation \in Filters
    /\ colormap \in Colormaps
    /\ alpha_limit \in {NoLimit, StrLimit, Num("float", DefaultAlphaLimit),
                        Num("float", One + 50), Num("int", One)}
    /\ starting_array = None
    /\ heatmap = None

Finish(r) ==
    /\ err' = r.err
    /\ ret' = r.ret

\* heatmap = colorize(heatmap, colormap=colormap)
Colorize ==
    /\ pc = "colorize"
    /\ LET c == colorize(heap, Ref("heat"), colormap)
       IN  /\ heap' = c.heap
           /\ heatmap' = c.ret
    /\ pc' = "update_alpha"
    /\ trace' = Append(trace, "colorize")
    /\ UNCHANGED <<given, interpolation, colormap, alpha_limit, starting_array, ret, err>>

\* update_alpha(heatmap, starting_array=expl.heatmap, alpha_limit=alpha_limit)
UpdateAlpha ==
    /\ pc = "update_alpha"
    /\ LET u == update_alpha(heap, heatmap, Ref("heat"), alpha_limit)
       IN  /\ heap' = u.heap
           /\ err' = u.err
           /\ pc' = IF u.err = NoErr THEN "heatmap_to_rgba" ELSE "raised"
    /\ trace' = Append(trace, "update_alpha")
    /\ UNCHANGED <<given, interpolation, colormap, alpha_limit, starting_array, heatmap, ret>>

\* heatmap = heatmap_to_rgba(heatmap)
HeatmapToRgba ==
    /\ pc = "heatmap_to_rgba"
    /\ heatmap' = heatmap_to_rgba(heap, heatmap)
    /\ pc' = "resize_over"
    /\ trace' = Append(trace, "heatmap_to_rgba")
    /\ UNCHANGED <<heap, given, interpolation, colormap, alpha_limit, starting_array, ret, err>>

\* heatmap = resize_over(heatmap, image, interpolation=interpolation)
ResizeOver ==
    /\ pc = "resize_over"
    /\ LET r == resize_over(heatmap, heap.img, interpolation)
       IN  /\ heatmap' = IF r.err = NoErr THEN r.ret ELSE heatmap
           /\ err' = r.err
           /\ pc' = IF r.err = NoErr THEN "overlay_heatmap" ELSE "raised"
    /\ trace' = Append(trace, "resize_over")
    /\ UNCHANGED <<heap, given, interpolation, colormap, alpha_limit, starting_array, ret>>

\* overlay = overlay_heatmap(heatmap, image); return overlay
OverlayHeatmap ==
    /\ pc = "overlay_heatmap"
    /\ LET o == overlay_heatmap(heatmap, heap.img)
       IN  /\ Finish(o)
           /\ pc' = IF o.err = NoErr THEN "return" ELSE "raised"
    /\ trace' = Append(trace, "overlay_heatmap")
    /\ UNCHANGED <<heap, given, interpolation, colormap, alpha_limit, starting_array, heatmap>>

Next ==
    \/ Colorize
    \/ UpdateAlpha
    \/ HeatmapToRgba
    \/ ResizeOver
    \/ OverlayHeatmap

Spec == Init /\ [][Next]_vars

----------------------------------------------------------------------------
(* cap_alpha and update_alpha called on their own *)

InitAlpha ==
    /\ interpolation = "LANCZOS"
    /\ colormap = "magma"
    /\ heatmap = None
    /\ alpha_limit \in Limits
    /\ \E sh \in Shapes, s \in Seeds :
          \/ /\ pc = "call cap_alpha"
             /\ starting_array = None
             /\ Fresh(HeatArray("ndarray", sh[1], sh[2], s), None, None)
          \/ /\ pc = "call update_alpha"
             /\ starting_array = None
             /\ Fresh(None, None, RgbaArray(sh[1], sh[2], s))
          \/ /\ pc = "call update_alpha"
             /\ starting_array = Ref("heat")
             /\ \E t \in {"ndarray", "list"}, k \in Seeds :
                   Fresh(HeatArray(t, sh[1], sh[2], k), None, RgbaArray(sh[1], sh[2], s))

\* cap_alpha(alpha_arr, alpha_limit) on the array at heat
CallCapAlpha ==
    /\ pc = "call cap_alpha"
    /\ LET c == cap_alpha(heap, Ref("heat"), alpha_limit)
       IN  /\ heap' = c.heap
           /\ Finish(c)
           /\ pc' = IF c.err = NoErr THEN "return" ELSE "raised"
    /\ trace' = Append(trace, "cap_alpha")
    /\ UNCHANGED <<given, interpolation, colormap, alpha_limit, starting_array, heatmap>>

\* update_alpha(image_array, starting_array, alpha_limit) on the array at rgba
CallUpdateAlpha ==
    /\ pc = "call update_alpha"
    /\ LET u == update_alpha(heap, Ref("rgba"), starting_array, alpha_limit)
       IN  /\ heap' = u.heap
           /\ Finish(u)
           /\ pc' = IF u.err = NoErr THEN "return" ELSE "raised"
    /\ trace' = Append(trace, "update_alpha")
    /\ UNCHANGED <<given, interpolation, colormap, alpha_limit, starting_array, heatmap>>

NextAlpha ==
    \/ CallCapAlpha
    \/ CallUpdateAlpha

SpecAlpha == InitAlpha /\ [][NextAlpha]_vars

----------------------------------------------------------------------------
(* heatmap_to_rgba and heatmap_to_grayscale called on their own *)

\* every value of [0, 1] in hundredths
Unit == 0..One

InitConvert ==
    /\ interpolation = "LANCZOS"
    /\ colormap = "magma"
    /\ heatmap = None
    /\ alpha_limit = NoLimit
    /\ starting_array = None
    /\ \E sh \in Shapes, x \in Unit :
          \/ /\ pc = "call heatmap_to_rgba"
             /\ Fresh(None, None,
                      Array("ndarray", sh[1], sh[2],
                            [p \in Pos(sh[1], sh[2]) |->
                                <<x, One - x, (x + Index(p, sh[2])) % (One + 1), x>>]))
          \/ /\ pc = "call heatmap_to_grayscale"
             /\ Fresh(Array("ndarray", sh[1], sh[2],
                            [p \in Pos(sh[1], sh[2]) |-> (x + Index(p, sh[2]) - 1) % (One + 1)]),
                      None, None)

CallHeatmapToRgba ==
    /\ pc = "call heatmap_to_rgba"
    /\ ret' = heatmap_to_rgba(heap, Ref("rgba"))
    /\ pc' = "return"
    /\ trace' = Append(trace, "heatmap_to_rgba")
    /\ UNCHANGED <<heap, given, interpolation, colormap, alpha_limit, starting_array,
                   heatmap, err>>

CallHeatmapToGrayscale ==
    /\ pc = "call heatmap_to_grayscale"
    /\ ret' = heatmap_to_grayscale(heap, Ref("heat"))
    /\ pc' = "return"
    /\ trace' = Append(trace, "heatmap_to_grayscale")
    /\ UNCHANGED <<heap, given, interpolation, colormap, alpha_limit, starting_array,
                   heatmap, err>>

NextConvert ==
    \/ CallHeatmapToRgba
    \/ CallHeatmapToGrayscale

SpecConvert == InitConvert /\ [][NextConvert]_vars

----------------------------------------------------------------------------
(* resize_over and overlay_heatmap called on their own *)

ImageArgs ==
    {ImageArg(a[1], a[2], sh[1], sh[2], s) :
        a \in {<<"pil", "L">>, <<"pil", "RGB">>, <<"pil", "RGBA">>,
               <<"ndarray", "RGB">>, <<"ndarray", "RGBA">>, <<"str", "">>},
        sh \in Shapes, s \in Seeds}

InitImage ==
    /\ colormap = "magma"
    /\ alpha_limit = NoLimit
    /\ starting_array = None
    /\ \E image \in ImageArgs : Fresh(None, image, None)
    /\ \/ /\ pc = "call resize_over"
          /\ interpolation \in Filters
          /\ \E sh \in Shapes, s \in Seeds :
                heatmap = ImageArg("pil", "RGBA", sh[1], sh[2], s)
       \/ /\ pc = "call overlay_heatmap"
          /\ interpolation = "LANCZOS"
          /\ heatmap \in ImageArgs

CallResizeOver ==
    /\ pc = "call resize_over"
    /\ LET r == resize_over(heatmap, heap.img, interpolation)
       IN  /\ Finish(r)
           /\ pc' = IF r.err = NoErr THEN "return" ELSE "raised"
    /\ trace' = Append(trace, "resize_over")
    /\ UNCHANGED <<heap, given, interpolation, colormap, alpha_limit, starting_array, heatmap>>

CallOverlayHeatmap ==
    /\ pc = "call overlay_heatmap"
    /\ LET o == overlay_heatmap(heatmap, heap.img)
       IN  /\ Finish(o)
           /\ pc' = IF o.err = NoErr THEN "return" ELSE "raised"
    /\ trace' = Append(trace, "overlay_heatmap")
    /\ UNCHANGED <<heap, given, interpolation, colormap, alpha_limit, starting_array, heatmap>>

NextImage ==
    \/ CallResizeOver
    \/ CallOverlayHeatmap

SpecImage == InitImage /\ [][NextImage]_vars

----------------------------------------------------------------------------
(* Properties *)

Called(f) == trace = <<f>>
Returned(f) == Called(f) /\ pc = "return"

\* C1: resize_over returns an image of exactly the target image's height and
\* width, whatever the heatmap's size and the filter
C1_ResizeMatchesTarget ==
    Returned("resize_over") =>
        /\ ret.height = heap.img.height
        /\ ret.width = heap.img.width

\* C2: in format_as_image the two images that reach the compositor have the
\* same size, the composite never fails on a size mismatch, and the image
\* returned has the source image's height and width
C2_CompositeSizesMatch ==
    /\ pc = "overlay_heatmap" =>
          <<heatmap.width, heatmap.height>> = <<heap.img.width, heap.img.height>>
    /\ err.in # "alpha_composite"
    /\ (pc = "return" /\ Len(trace) = 5) =>
          /\ ret.height = heap.img.height
          /\ ret.width = heap.img.width

\* the calls of format_as_image, in the order of a run that returns
FormatOrder ==
    <<"colorize", "update_alpha", "heatmap_to_rgba", "resize_over", "overlay_heatmap">>

LimitOK == alpha_limit = None \/ InRange(alpha_limit)

\* C3 as stated: with the source image as an array or as a PIL image the call
\* never fails at the resize step, and a call that returns has run the steps
\* in order and returns an RGBA image
C3_AnyFormReachesComposite ==
    /\ err.in # "resize_over"
    /\ pc = "return" => (trace = FormatOrder /\ ret.mode = "RGBA")

\* C3 amended: the source image is normalized only inside overlay_heatmap,
\* after resize_over has read its height and width.  A call that returns
\* was given a PIL image, has run the steps in order and returns an RGBA
\* image; a PIL source never fails at the resize or the normalize step; an
\* array source never reaches overlay_heatmap: with a valid alpha_limit the
\* call raises AttributeError in resize_over, after the first three steps
C3_NormalizedAfterResize ==
    /\ pc = "return" =>
          /\ trace = FormatOrder
          /\ heap.img.type = "pil"
          /\ ret.type = "pil" /\ ret.mode = "RGBA"
    /\ heap.img.type = "pil" => err.in \notin {"resize_over", "convert_image"}
    /\ heap.img.type = "ndarray" =>
          /\ pc \notin {"overlay_heatmap", "return"}
          /\ (LimitOK /\ pc = "raised") =>
                /\ err = Raise("AttributeError", "resize_over")
                /\ trace = SubSeq(FormatOrder, 1, 4)

C3_Witness ==
    /\ heap.img.type = "ndarray"
    /\ pc = "raised"
    /\ err.in = "resize_over"
    /\ heatmap.type = "pil"

\* C4: cap_alpha(a, None) returns a unchanged; for a number in [0, 1] it
\* returns an array of a's shape whose every element is the smaller of a's
\* element and the limit
C4_CapAlpha ==
    Called("cap_alpha") =>
        /\ alpha_limit = None =>
              /\ pc = "return"
              /\ Read(heap, ret) = given.heat.v
        /\ InRange(alpha_limit) =>
              /\ pc = "return"
              /\ <<heap[ret.addr].h, heap[ret.addr].w>> = <<given.heat.h, given.heat.w>>
              /\ DOMAIN Read(heap, ret) = DOMAIN given.heat.v
              /\ \A p \in DOMAIN given.heat.v :
                    LET a == given.heat.v[p]
                        r == Read(heap, ret)[p]
                    IN  /\ r <= alpha_limit.val
                        /\ r <= a
                        /\ r \in {a, alpha_limit.val}

C4_Witness ==
    /\ Returned("cap_alpha")
    /\ InRange(alpha_limit)
    /\ \E p \in DOMAIN given.heat.v : given.heat.v[p] > alpha_limit.val
    /\ \E p \in DOMAIN given.heat.v : Read(heap, ret)[p] = alpha_limit.val

\* C5: cap_alpha raises ValueError for every number outside [0, 1] and
\* TypeError for every limit that is neither None nor a number, returning
\* nothing, whatever the array holds
C5_CapAlphaErrors ==
    Called("cap_alpha") =>
        /\ (IsNumber(alpha_limit) /\ ~InRange(alpha_limit)) =>
              /\ pc = "raised"
              /\ err = Raise("ValueError", "cap_alpha")
              /\ ret = None
        /\ (alpha_limit # None /\ ~IsNumber(alpha_limit)) =>
              /\ pc = "raised"
              /\ err = Raise("TypeError", "cap_alpha")
              /\ ret = None

C5_Witness ==
    /\ Called("cap_alpha")
    /\ pc = "raised"
    /\ err.type = "ValueError"
    /\ alpha_limit.val < 0

\* C6: update_alpha(img, starting_array=h, limit) with h an array and limit
\* in [0, 1] leaves R, G and B of every pixel as they were and sets alpha to
\* min(h, limit), whatever alpha was before
C6_UpdateAlphaFrame ==
    (Called("update_alpha") /\ IsNdarray(given, starting_array) /\ InRange(alpha_limit)) =>
        /\ pc = "return"
        /\ DOMAIN heap.rgba.v = DOMAIN given.rgba.v
        /\ \A p \in DOMAIN given.rgba.v :
              /\ \A c \in 1..3 : heap.rgba.v[p][c] = given.rgba.v[p][c]
              /\ heap.rgba.v[p][4] = Min(given.heat.v[p], alpha_limit.val)

C6_Witness ==
    /\ Returned("update_alpha")
    /\ IsNdarray(given, starting_array)
    /\ InRange(alpha_limit)
    /\ \E p \in DOMAIN given.rgba.v :
          /\ given.heat.v[p] > alpha_limit.val
          /\ given.rgba.v[p][4] # heap.rgba.v[p][4]

\* the alpha channel of the array at rgba is f, capped by alpha_limit
AlphaIsCapped(f) ==
    \A p \in DOMAIN heap.rgba.v :
        heap.rgba.v[p][4] = IF alpha_limit = None THEN f[p] ELSE Min(f[p], alpha_limit.val)

OldAlpha == [p \in DOMAIN given.rgba.v |-> given.rgba.v[p][4]]

\* C7 as stated: whenever starting_array is provided, of whatever type, the
\* capped starting_array becomes the alpha channel; the image's own alpha
\* is the source only when starting_array is absent
C7_ProvidedIsUsed ==
    Returned("update_alpha") =>
        IF starting_array # None
        THEN AlphaIsCapped(given.heat.v)
        ELSE AlphaIsCapped(OldAlpha)

\* C7 amended: the capped starting_array becomes the alpha channel exactly
\* when it is a numpy.ndarray; when it is absent or of any other type (a
\* nested list) the image's own alpha is capped and kept, and the value
\* passed is ignored without an error
C7_NdarrayIsUsed ==
    Returned("update_alpha") =>
        IF IsNdarray(given, starting_array)
        THEN AlphaIsCapped(given.heat.v)
        ELSE AlphaIsCapped(OldAlpha)

C7_Witness ==
    /\ Returned("update_alpha")
    /\ starting_array # None
    /\ given.heat.type = "list"
    /\ ~AlphaIsCapped(given.heat.v)

\* the pairs <<value in [0, 1], 8-bit value>> of a conversion that returned
Converted ==
    IF Called("heatmap_to_rgba")
    THEN {<<given.rgba.v[p][c], ret.px.at[p][c]>> : p \in DOMAIN given.rgba.v, c \in 1..4}
    ELSE {<<given.heat.v[p], ret.px.at[p][1]>> : p \in DOMAIN given.heat.v}

\* C8 as stated: every value x of [0, 1] becomes round(x*255), and the
\* default alpha_limit 0.65 becomes 166
C8_Rounds ==
    pc = "return" =>
        \A xq \in Converted :
            /\ 2 * xq[2] * One - One <= 2 * xq[1] * MaxByte
            /\ 2 * xq[1] * MaxByte <= 2 * xq[2] * One + One
            /\ xq[1] = DefaultAlphaLimit => xq[2] = 166

\* C8 amended: every value x of [0, 1] becomes x*255 with its fraction
\* dropped, an integer of 0..255 that is at most x*255 and less than 1 below
\* it, so that dividing by 255 gives back x within 1/255; the default
\* alpha_limit 0.65 becomes 165
C8_Truncates ==
    pc = "return" =>
        \A xq \in Converted :
            /\ xq[2] \in 0..MaxByte
            /\ xq[2] * One <= xq[1] * MaxByte
            /\ xq[1] * MaxByte < (xq[2] + 1) * One
            /\ xq[1] = DefaultAlphaLimit => xq[2] = 165

C8_Witness ==
    /\ Returned("heatmap_to_rgba")
    /\ <<DefaultAlphaLimit, 165>> \in Converted
    /\ \E xq \in Converted : 2 * xq[1] * MaxByte > 2 * xq[2] * One + One

BothRGBA ==
    /\ heatmap.type = "pil" /\ heatmap.mode = "RGBA"
    /\ heap.img.type = "pil" /\ heap.img.mode = "RGBA"

\* C9: overlay_heatmap puts the heatmap over the image: of two RGBA images
\* of one size, a pixel where the heatmap's alpha is 0 comes out as the
\* image's pixel, and a pixel where the heatmap's alpha is 255 comes out
\* with the heatmap's R, G, B and alpha 255
C9_HeatmapOnTop ==
    (Returned("overlay_heatmap") /\ BothRGBA) =>
        \A p \in DOMAIN ret.px.at :
            LET h == heatmap.px.at[p]
                i == heap.img.px.at[p]
                o == ret.px.at[p]
            IN  /\ h[4] = 0 => o = i
                /\ h[4] = MaxByte => o = <<h[1], h[2], h[3], MaxByte>>

C9_Witness ==
    /\ Returned("overlay_heatmap")
    /\ BothRGBA
    /\ \E p \in DOMAIN ret.px.at :
          /\ heatmap.px.at[p][4] = 0
          /\ ret.px.at[p] # heatmap.px.at[p]
    /\ \E p \in DOMAIN ret.px.at :
          /\ heatmap.px.at[p][4] = MaxByte
          /\ ret.px.at[p] # heap.img.px.at[p]

\* C10: format_as_image leaves the caller's heatmap array and source image
\* as they were, at every step, for every alpha_limit (None included) and
\* also when the call raises
C10_InputsUntouched ==
    /\ heap.heat = given.heat
    /\ heap.img = given.img

C10_Witness ==
    /\ pc = "return"
    /\ alpha_limit = None
    /\ \A p \in DOMAIN heap.rgba.v : heap.rgba.v[p][4] = given.heat.v[p]
    /\ \E p \in DOMAIN heap.rgba.v : heap.rgba.v[p][4] # Colormap(colormap, given.heat.v[p])[4]

====
